---- MODULE Spec2Model ----
(***************************************************************************)
(* A model of the file synchronisation engine of the TERA launcher          *)
(* (teralaunch/src-tauri/src/file_handler.rs): the diff pass                 *)
(* get_files_to_update with its cache file, and the download pipeline        *)
(* download_all_files / update_file, the manifest generation                 *)
(* generate_hash_file with is_ignored, and the game launch commands of       *)
(* game_handler.rs and auth_handler.rs.                                      *)
(*                                                                           *)
(* Values.  Paths and urls are small integers, a file's content is a         *)
(* sequence of bytes, a hash is the number Sha256 gives that sequence, a     *)
(* modification time is a positive integer.  A JSON field that is absent or  *)
(* of the wrong type, an unavailable modification time and a missing cache   *)
(* entry are negative sentinels.                                             *)
(***************************************************************************)
EXTENDS Integers, Sequences, FiniteSets, TLC

\* ------------------------------------------------------------------ bounds
\* Number of elements of the server manifest's "files" array, and the largest
\* number of entries of a download batch.
NumEntries == 2
\* Largest number of bytes a response body delivers before the stream ends.
MaxBody == 2
\* Number of handle_launch_game calls.
NumCallers == 2

\* ------------------------------------------------------------- constants
\* file_check_progress is emitted every 50th processed entry.
PROGRESS_EVERY == 50

\* ---------------------------------------------------------------- values
Missing == -1
NoTime == -2
Bytes == {0, 1}

\* as_str() / as_u64() on a manifest field: Some(v) or None.
IsSome(v) == v # Missing

\* calculate_file_hash's digest of a byte sequence: SHA-256 read as a number,
\* modelled by an injective numbering of the byte sequences (different
\* contents, of the same or of different lengths, have different digests).
RECURSIVE Sha256(_)
Sha256(content) ==
    IF content = <<>> THEN 0
    ELSE 2 * Sha256(SubSeq(content, 1, Len(content) - 1))
         + content[Len(content)] + 1

\* The paths the manifest may name: element i names path i.
Paths == 1..NumEntries
\* The url the server publishes for a path.
UrlOf(p) == 100 + p

\* Contents a local file may have when a pass starts.
LocalContents == {<<0>>, <<1>>, <<0, 0>>}
\* Modification times: of the local files, recorded in the cache file, and of
\* a file created by a download.
LocalTimes == {1}
CacheTimes == {1, 2}
NewTimes == {3}
\* What the server manifest declares for a file.
ServerHashes == {Sha256(<<0>>), Sha256(<<1>>)}
ServerSizes == {1}
\* The hashes the cache file may record.
CachedHashes == {Sha256(<<0>>)}

\* ------------------------------------------------------------ filesystem
\* A path of the install root: absent, or a file with its content and
\* modification time.  meta_ok: fs::metadata succeeds; readable: File::open
\* and read succeed (calculate_file_hash returns Ok).
Absent ==
    [exists |-> FALSE, meta_ok |-> FALSE, content |-> <<>>, mtime |-> NoTime,
     readable |-> FALSE]

LocalFile(c, t, m, r) ==
    [exists |-> TRUE, meta_ok |-> m, content |-> c, mtime |-> t, readable |-> r]

\* The local files a pass may find: absent, with unreadable metadata, with
\* one of the contents, or with the server's size and unreadable content.
LocalFiles ==
    {Absent}
    \cup {LocalFile(c, t, TRUE, TRUE) : c \in LocalContents, t \in LocalTimes}
    \cup {LocalFile(<<0>>, t, FALSE, TRUE) : t \in LocalTimes}
    \cup {LocalFile(<<0>>, t, TRUE, FALSE) : t \in LocalTimes}

\* ----------------------------------------------------------------- cache
\* CachedFileInfo, and the absence of an entry in the HashMap.
NoEntry == [hash |-> Missing, last_modified |-> NoTime]
CachedFileInfo(h, t) == [hash |-> h, last_modified |-> t]
CacheEntries ==
    {NoEntry} \cup {CachedFileInfo(h, t) : h \in CachedHashes, t \in CacheTimes}
EmptyCache == [p \in Paths |-> NoEntry]

\* The cache file next to the executable: absent, unparsable, or a mapping.
CacheFile(st, m) == [state |-> st, map |-> m]
CacheFiles ==
    {CacheFile("absent", EmptyCache), CacheFile("corrupt", EmptyCache)}
    \cup {CacheFile("ok", m) : m \in [Paths -> CacheEntries]}

\* -------------------------------------------------------------- manifest
\* One element of the server manifest's "files" array: well formed, or
\* lacking its path, its hash or its size.
ManifestEntry(p, h, s, u) == [path |-> p, hash |-> h, size |-> s, url |-> u]
ManifestEntries(i) ==
    {ManifestEntry(i, h, s, UrlOf(i)) : h \in ServerHashes, s \in ServerSizes}
    \cup {ManifestEntry(Missing, Sha256(<<0>>), 1, UrlOf(i)),
          ManifestEntry(i, Missing, 1, UrlOf(i)),
          ManifestEntry(i, Sha256(<<0>>), Missing, UrlOf(i))}

FileInfo(p, h, s, u) == [path |-> p, hash |-> h, size |-> s, url |-> u]
None == [path |-> Missing, hash |-> Missing, size |-> Missing, url |-> Missing]

\* ----------------------------------------------------------------- state
VARIABLES
    server_manifest,        \* the "files" array the server publishes
    fs,                     \* the install root: path -> local file
    modified_supported,     \* Metadata::modified is available on the platform
    cache_file,             \* file_cache.json on disk
    pc,                     \* get_files_to_update: "idle", "scan", "returned"
    cache,                  \* the pass's in-memory HashMap
    cache_loaded,           \* the HashMap as load_cache_from_disk gave it
    todo,                   \* manifest indices the workers have not evaluated
    found,                  \* index -> the closure's Some(FileInfo) or None
    hashed,                 \* paths calculate_file_hash was invoked on
    processed_count,        \* AtomicUsize
    files_to_update_count,  \* AtomicUsize
    total_update_size,      \* AtomicU64
    file_check_progress,    \* the pass's file_check_progress events, in order
    manifest_requests,      \* GET requests sent to HASH_FILE_URL
    saved,                  \* how save_cache_to_disk went
    ret,                    \* the pass's return value
    files_to_update,        \* download_all_files: the batch it was given
    dl_pc,                  \* "idle", "request", "stream", "returned"
    index,                  \* the loop's position in the batch, from 1
    current_accumulated_bytes,
    individual_downloaded_sizes,
    downloaded_for_current_file,
    current_file_total_size,
    requests,               \* batch positions whose url was requested, in order
    file_ret,               \* batch position -> what update_file returned
    download_progress,      \* the last download_progress event emitted
    previous_progress,      \* the download_progress event emitted before it
    download_complete,      \* number of download_complete events emitted
    dl_ret,                 \* what download_all_files returned
    ignored_files,          \* the paths of the install root is_ignored accepts
    gen_pc,                 \* generate_hash_file: "idle", "walk", "returned"
    closure,                \* path -> where the try_for_each closure is on it
    hash_total_files,       \* generate_hash_file's total_files
    processed_files_count,  \* AtomicUsize
    total_size_accumulated, \* AtomicU64
    files_data,             \* Mutex<Vec<FileInfo>>
    hash_file_progress,     \* the hash_file_progress events, in order
    gen_error,              \* the errors the closures returned, in order
    hash_file,              \* hash-file.json as written
    gen_ret,                \* what generate_hash_file returned
    ig_path,                \* is_ignored: its argument path, as components
    ig_game_path,           \* is_ignored: its argument game_path
    ig_ignored_paths,       \* is_ignored: its argument ignored_paths
    ig_called,              \* is_ignored has returned
    ig_ret,                 \* what is_ignored returned
    is_launching,           \* GameState.is_launching, the value in the Mutex
    game_running,           \* the value status_receiver.borrow() reads
    auth_info,              \* GLOBAL_AUTH_INFO: "set" or "empty"
    launch_pc,              \* call -> where handle_launch_game is
    launch_ret,             \* call -> what handle_launch_game returned
    task_pc,                \* call -> where the task it spawned is
    game_events,            \* call -> the events its task emitted, in order
    reset_seen              \* reset_launch_state or handle_logout was called

envVars == <<server_manifest, modified_supported>>
passVars ==
    <<pc, cache, cache_loaded, todo, found, hashed, processed_count,
      files_to_update_count, total_update_size, file_check_progress,
      manifest_requests, saved, ret>>
dlVars ==
    <<files_to_update, dl_pc, index, current_accumulated_bytes,
      individual_downloaded_sizes, downloaded_for_current_file,
      current_file_total_size, requests, file_ret, download_progress,
      previous_progress, download_complete, dl_ret>>
genVars ==
    <<ignored_files, gen_pc, closure, hash_total_files, processed_files_count,
      total_size_accumulated, files_data, hash_file_progress, gen_error,
      hash_file, gen_ret>>
ignVars == <<ig_path, ig_game_path, ig_ignored_paths, ig_called, ig_ret>>
launchVars ==
    <<is_launching, game_running, auth_info, launch_pc, launch_ret, task_pc,
      game_events, reset_seen>>
vars ==
    <<envVars, fs, cache_file, passVars, dlVars, genVars, ignVars, launchVars>>

Ok(v) == [ok |-> TRUE, value |-> v, err |-> "", file |-> Missing]
Err(e) == [ok |-> FALSE, value |-> <<>>, err |-> e, file |-> Missing]
\* An error whose message names a file.
ErrFile(e, p) == [ok |-> FALSE, value |-> <<>>, err |-> e, file |-> p]
NoRet == [ok |-> FALSE, value |-> <<>>, err |-> "pending", file |-> Missing]

\* ------------------------------------------------- get_files_to_update
\* load_cache_from_disk: a missing file is an empty map, an unreadable or
\* unparsable one an error.
load_cache_from_disk(file) ==
    CASE file.state = "absent" -> [ok |-> TRUE, map |-> EmptyCache]
      [] file.state = "corrupt" -> [ok |-> FALSE, map |-> EmptyCache]
      [] OTHER -> [ok |-> TRUE, map |-> file.map]

\* load_cache_from_disk().unwrap_or_else(|err| HashMap::new())
LoadedCache(file) == load_cache_from_disk(file).map

\* WellFormed with only the path looked at.
WellFormed_PathOnly(e) == IsSome(e.path)

\* The element has a string path, a string hash and a numeric size.
WellFormed(e) == IsSome(e.path) /\ IsSome(e.hash) /\ IsSome(e.size)

\* SizeDiffers with the size comparison left out.
SizeDiffers_Never(f, e) == FALSE

\* metadata.len() != size_u64
SizeDiffers(f, e) == Len(f.content) # e.size

\* metadata.modified().ok()
Modified(f, supported) == IF supported THEN f.mtime ELSE NoTime

\* CacheTrusted with the cache never consulted.
CacheTrusted_Never(cached, local_modified_time, server_hash) == FALSE

\* CacheTrusted without the comparison of the cached hash to the server's.
CacheTrusted_AnyHash(cached, local_modified_time, server_hash) ==
    /\ cached # NoEntry
    /\ cached.last_modified = local_modified_time

\* The cache holds an entry for the path whose modification time is the
\* file's and whose hash is the server's.
CacheTrusted(cached, local_modified_time, server_hash) ==
    /\ cached # NoEntry
    /\ cached.last_modified = local_modified_time
    /\ cached.hash = server_hash

\* The closure of the parallel filter_map, for manifest element e, the local
\* file f at its path, the cache entry at its path: which return it takes.
Classify(e, f, cached, supported) ==
    IF ~WellFormed(e) THEN "skipped"
    ELSE IF ~f.exists THEN "missing"
    ELSE IF ~f.meta_ok THEN "metadata_error"
    ELSE IF SizeDiffers(f, e) THEN "size_differs"
    ELSE IF Modified(f, supported) = NoTime THEN "no_modified_time"
    ELSE IF CacheTrusted(cached, Modified(f, supported), e.hash)
         THEN "cache_hit"
    ELSE IF ~f.readable THEN "hash_error"
    ELSE IF Sha256(f.content) # e.hash THEN "hash_differs"
    ELSE "hash_equal"

\* RequiredKinds with the return for a failed calculate_file_hash being None.
RequiredKinds_HashErrorSkipped ==
    {"missing", "metadata_error", "size_differs", "hash_differs"}

\* RequiredKinds with the return for a missing file being None.
RequiredKinds_MissingSkipped ==
    {"metadata_error", "size_differs", "hash_error", "hash_differs"}

\* The returns that are Some(FileInfo).
RequiredKinds ==
    {"missing", "metadata_error", "size_differs", "hash_error", "hash_differs"}
\* The returns that come after the call of calculate_file_hash.
HashingKinds == {"hash_error", "hash_differs", "hash_equal"}
\* InsertingKinds with the insert made only when the hashes are equal.
InsertingKinds_EqualOnly == {"hash_equal"}

\* The returns that come after cache.insert.
InsertingKinds == {"hash_differs", "hash_equal"}

\* The FileInfo the closure returns for a required element.
RequiredInfo(e) == FileInfo(e.path, e.hash, e.size, e.url)

\* The entry cache.insert stores after hashing file f.
InsertedEntry(f, supported) ==
    CachedFileInfo(Sha256(f.content), Modified(f, supported))

\* AfterRead with the file opened as File::create opens it.
AfterRead_Truncated(f) ==
    IF f.exists THEN LocalFile(<<>>, f.mtime, f.meta_ok, f.readable) ELSE f

\* What the closure leaves of file f: exists(), fs::metadata and the File::open
\* and read calls of calculate_file_hash do not write.
AfterRead(f) == f

\* What reading the path of element e gives (a malformed element reads none).
FileAt(files, e) == IF IsSome(e.path) THEN files[e.path] ELSE Absent
CachedAt(map, e) == IF IsSome(e.path) THEN map[e.path] ELSE NoEntry

\* The progress event of the closure, for the value its fetch_add returned.
ProgressDue(current_processed, total_server_files) ==
    \/ current_processed % PROGRESS_EVERY = 0
    \/ current_processed = total_server_files

\* (current_processed as f64 / total_files as f64) * 100.0, to the percent.
Percent(current_processed, total) == (current_processed * 100) \div total

FileCheckProgress(e, current_processed, total, to_update) ==
    [current_file |-> e.path, progress |-> Percent(current_processed, total),
     current_count |-> current_processed, total_files |-> total,
     files_to_update |-> to_update]

\* Collect with the results in the reverse of the manifest's order.
RECURSIVE Collect_Reversed(_, _)
Collect_Reversed(results, k) ==
    IF k = 0 THEN <<>>
    ELSE (IF results[k] # None THEN <<results[k]>> ELSE <<>>)
         \o Collect_Reversed(results, k - 1)

\* collect(): the Some results in the order of the manifest.
RECURSIVE Collect(_, _)
Collect(results, k) ==
    IF k = 0 THEN <<>>
    ELSE Collect(results, k - 1)
         \o (IF results[k] # None THEN <<results[k]>> ELSE <<>>)

\* save_cache_to_disk writing only the entries of the paths hashed by the pass.
save_cache_to_disk_Pruned(file, map, outcome) ==
    CASE outcome = "saved" ->
             CacheFile("ok", [p \in Paths |->
                                 IF p \in hashed THEN map[p] ELSE NoEntry])
      [] outcome = "create_failed" -> file
      [] OTHER -> CacheFile("corrupt", EmptyCache)

\* save_cache_to_disk: File::create truncates the file, write_all fills it.
SaveOutcomes == {"saved", "create_failed", "write_failed"}
save_cache_to_disk(file, map, outcome) ==
    CASE outcome = "saved" -> CacheFile("ok", map)
      [] outcome = "create_failed" -> file
      [] OTHER -> CacheFile("corrupt", EmptyCache)

\* PassResult with the error of save_cache_to_disk propagated.
PassResult_SaveChecked(outcome, list) ==
    IF outcome = "saved" THEN Ok(list) ELSE Err("Failed to save cache")

\* save_cache_to_disk(&cache).unwrap_or_else(|err| warn!(..)), then
\* Ok(files_to_update_list): the outcome of the save is only logged.
PassResult(outcome, list) == Ok(list)

\* How the start of a pass can go: the configuration errors, the failures of
\* the manifest request, then the pass proper.
StartOutcomes ==
    {"no_url", "send_failed", "bad_status", "bad_json", "no_game_path",
     "no_files_array", "ok"}
StartError(o) ==
    CASE o = "no_url" -> "HASH_FILE_URL is not configured."
      [] o = "send_failed" -> "Failed to send request to HASH_FILE_URL"
      [] o = "bad_status" -> "Server returned error for HASH_FILE_URL"
      [] o = "bad_json" -> "Failed to parse HASH_FILE_URL JSON"
      [] o = "no_game_path" -> "Config file (tera_config.ini) not found"
      [] OTHER -> "Invalid server hash file format (files array missing)"

\* A whole pass as a function of what it reads, the elements evaluated in
\* manifest order: the list it returns, the cache it leaves, the paths it
\* hashes.
RECURSIVE RunPass(_, _, _, _, _)
RunPass(manifest, files, map, supported, k) ==
    IF k = 0 THEN [list |-> <<>>, cache |-> map, hashed |-> {}]
    ELSE LET before == RunPass(manifest, files, map, supported, k - 1)
             e == manifest[k]
             f == FileAt(files, e)
             kind == Classify(e, f, CachedAt(before.cache, e), supported)
         IN [list |-> IF kind \in RequiredKinds
                      THEN Append(before.list, RequiredInfo(e))
                      ELSE before.list,
             cache |-> IF kind \in InsertingKinds
                       THEN [before.cache EXCEPT
                                ![e.path] = InsertedEntry(f, supported)]
                       ELSE before.cache,
             hashed |-> IF kind \in HashingKinds
                        THEN before.hashed \cup {e.path}
                        ELSE before.hashed]

\* get_files_to_update up to the parallel iteration: the manifest is fetched,
\* the install root read from the configuration, the cache loaded.
StartPass(o) ==
    /\ pc = "idle"
    /\ manifest_requests' = IF o = "no_url" THEN manifest_requests
                            ELSE manifest_requests + 1
    /\ pc' = IF o = "ok" THEN "scan" ELSE "returned"
    /\ cache' = IF o = "ok" THEN LoadedCache(cache_file) ELSE cache
    /\ cache_loaded' = cache'
    /\ ret' = IF o = "ok" THEN NoRet ELSE Err(StartError(o))
    /\ todo' = IF o = "ok" THEN 1..NumEntries ELSE {}
    /\ UNCHANGED <<launchVars,
                   envVars, genVars, ignVars,
                   fs, cache_file, found, hashed, processed_count,
                   files_to_update_count, total_update_size,
                   file_check_progress, saved, dlVars>>

\* One run of the filter_map closure, by whichever worker takes element i.
\* The count and the emission of its event are one step here: a manifest of
\* fewer than PROGRESS_EVERY elements has at most one event emitted, that of
\* the last count.
CheckEntry(i) ==
    /\ pc = "scan"
    /\ i \in todo
    /\ LET e == server_manifest[i]
           f == FileAt(fs, e)
           kind == Classify(e, f, CachedAt(cache, e), modified_supported)
           current_processed == processed_count + 1
       IN /\ todo' = todo \ {i}
          /\ processed_count' =
                 IF kind = "skipped" THEN processed_count ELSE current_processed
          /\ file_check_progress' =
                 IF kind # "skipped"
                    /\ ProgressDue(current_processed, NumEntries)
                 THEN Append(file_check_progress,
                          FileCheckProgress(e, current_processed, NumEntries,
                                            files_to_update_count))
                 ELSE file_check_progress
          /\ found' = [found EXCEPT
                 ![i] = IF kind \in RequiredKinds THEN RequiredInfo(e) ELSE None]
          /\ files_to_update_count' =
                 IF kind \in RequiredKinds THEN files_to_update_count + 1
                 ELSE files_to_update_count
          /\ total_update_size' =
                 IF kind \in RequiredKinds THEN total_update_size + e.size
                 ELSE total_update_size
          /\ hashed' = IF kind \in HashingKinds THEN hashed \cup {e.path}
                       ELSE hashed
          /\ cache' =
                 IF kind \in InsertingKinds
                 THEN [cache EXCEPT
                          ![e.path] = InsertedEntry(f, modified_supported)]
                 ELSE cache
          /\ fs' = IF IsSome(e.path)
                    THEN [fs EXCEPT ![e.path] = AfterRead(f)]
                    ELSE fs
    /\ UNCHANGED <<launchVars,
                   envVars, genVars, ignVars,
                   cache_file, pc, cache_loaded,
                   manifest_requests, saved, ret, dlVars>>

\* After the parallel iteration: the list is collected, the cache saved, the
\* call returns.
FinishPass(outcome) ==
    /\ pc = "scan"
    /\ todo = {}
    /\ pc' = "returned"
    /\ cache_file' = save_cache_to_disk(cache_file, cache, outcome)
    /\ saved' = outcome
    /\ ret' = PassResult(outcome, Collect(found, NumEntries))
    /\ UNCHANGED <<launchVars,
                   envVars, genVars, ignVars,
                   fs, cache, cache_loaded, todo, found, hashed,
                   processed_count, files_to_update_count, total_update_size,
                   file_check_progress, manifest_requests, dlVars>>

\* The manifests a pass may be given.
Manifests ==
    {m \in [1..NumEntries -> UNION {ManifestEntries(i) : i \in Paths}] :
        \A i \in 1..NumEntries : m[i] \in ManifestEntries(i)}

\* Where the try_for_each closure is on a path: not a file the walk yields
\* to it, not started, past its fetch_add with the count it got, returned.
NoClosure == [at |-> "none", current_processed |-> 0]
Waiting == [at |-> "todo", current_processed |-> 0]
Counted(n) == [at |-> "counted", current_processed |-> n]
Finished(n) == [at |-> "done", current_processed |-> n]
Failed == [at |-> "failed", current_processed |-> 0]

\* generate_hash_file has not been called.
GenIdle ==
    /\ gen_pc = "idle"
    /\ closure = [p \in Paths |-> NoClosure]
    /\ hash_total_files = 0
    /\ processed_files_count = 0
    /\ total_size_accumulated = 0
    /\ files_data = <<>>
    /\ hash_file_progress = <<>>
    /\ gen_error = <<>>
    /\ hash_file = <<>>
    /\ gen_ret = NoRet

\* is_ignored has not been called (the other operations do not call it in
\* the model: their walks are given its verdicts in ignored_files).
IgnoreIdle ==
    /\ ig_path = <<>>
    /\ ig_game_path = <<>>
    /\ ig_ignored_paths = {}
    /\ ig_called = FALSE
    /\ ig_ret = FALSE

\* The calls of handle_launch_game.
Callers == 1..NumCallers

\* The launcher as main sets it up: is_launching false, no game running, no
\* call of handle_launch_game made, no task spawned.
LaunchIdle ==
    /\ is_launching = FALSE
    /\ game_running = FALSE
    /\ auth_info = "set"
    /\ launch_pc = [c \in Callers |-> "idle"]
    /\ launch_ret = [c \in Callers |-> NoRet]
    /\ task_pc = [c \in Callers |-> "none"]
    /\ game_events = [c \in Callers |-> <<>>]
    /\ reset_seen = FALSE

\* No pass has started.
PassIdle ==
    /\ pc = "idle"
    /\ cache = EmptyCache
    /\ cache_loaded = EmptyCache
    /\ todo = {}
    /\ found = [i \in 1..NumEntries |-> None]
    /\ hashed = {}
    /\ processed_count = 0
    /\ files_to_update_count = 0
    /\ total_update_size = 0
    /\ file_check_progress = <<>>
    /\ manifest_requests = 0
    /\ saved = "none"
    /\ ret = NoRet

NoEvent ==
    [file_name |-> Missing, downloaded_bytes |-> 0, total_bytes |-> 0,
     total_files |-> 0, current_file_index |-> 0]

\* No download has started, for the batch it will be given.
DownloadIdle(batch) ==
    /\ files_to_update = batch
    /\ dl_pc = "idle"
    /\ index = 0
    /\ current_accumulated_bytes = 0
    /\ individual_downloaded_sizes = <<>>
    /\ downloaded_for_current_file = 0
    /\ current_file_total_size = 0
    /\ requests = <<>>
    /\ file_ret = [i \in 1..Len(batch) |-> NoRet]
    /\ download_progress = NoEvent
    /\ previous_progress = NoEvent
    /\ download_complete = 0
    /\ dl_ret = NoRet

\* The install roots a pass over manifest m may find.  The path of a
\* malformed element is never examined: it is kept absent.  The hash an
\* element declares is looked at only once the file was found with readable
\* metadata and the declared size: the second server hash is tried on the
\* files that get that far and whose content can be read.
InstallRoots(m) ==
    {r \in [Paths -> LocalFiles] :
        \A i \in Paths :
            /\ ~WellFormed(m[i]) => r[i] = Absent
            /\ (WellFormed(m[i]) /\ m[i].hash # Sha256(<<0>>)) =>
                   /\ r[i].exists /\ r[i].meta_ok /\ r[i].readable
                   /\ ~SizeDiffers(r[i], m[i])}

Init ==
    /\ server_manifest \in Manifests
    /\ fs \in InstallRoots(server_manifest)
    /\ modified_supported \in BOOLEAN
    /\ cache_file \in CacheFiles
    /\ PassIdle
    /\ DownloadIdle(<<>>)
    /\ ignored_files = {}
    /\ GenIdle
    /\ IgnoreIdle
    /\ LaunchIdle

Next ==
    \/ \E o \in StartOutcomes : StartPass(o)
    \/ \E i \in 1..NumEntries : CheckEntry(i)
    \/ \E outcome \in SaveOutcomes : FinishPass(outcome)

Spec == Init /\ [][Next]_vars

\* ---------------------------------------- download_all_files, update_file
\* What the entries of a batch declare, as <<hash, size>>: the hash and the
\* size of one content, or the hash of a content longer than the size.
BatchDeclared ==
    {<<Sha256(<<0>>), 1>>, <<Sha256(<<0, 0>>), 2>>, <<Sha256(<<0, 0>>), 1>>}
\* The files the install root may hold before a download.
OldFiles == {Absent} \cup {LocalFile(<<1>>, t, TRUE, TRUE) : t \in LocalTimes}
\* The install root before a download: the paths of even number hold an old
\* file, the others are absent (a batch takes the paths in any order).
OldRoots ==
    {r \in [Paths -> OldFiles] : \A p \in Paths : r[p].exists <=> p % 2 = 0}

\* The sequences of distinct paths of length at most n.
RECURSIVE PathSeqs(_)
PathSeqs(n) ==
    IF n = 0 THEN {<<>>}
    ELSE LET shorter == PathSeqs(n - 1)
         IN shorter
            \cup {Append(q, p) : q \in {r \in shorter : Len(r) = n - 1},
                                 p \in Paths}

\* The batches: up to NumEntries entries of distinct paths.
Batches ==
    UNION {
      {b \in [1..Len(q) -> {FileInfo(p, d[1], d[2], UrlOf(p)) :
                              p \in Paths, d \in BatchDeclared}] :
          \A k \in 1..Len(q) : b[k].path = q[k]} :
      q \in {r \in PathSeqs(NumEntries) :
               \A i, j \in 1..Len(r) : i # j => r[i] # r[j]}}

\* files_to_update.iter().map(|f| f.size).sum()
RECURSIVE SumSizes(_, _)
SumSizes(batch, k) ==
    IF k = 0 THEN 0 ELSE SumSizes(batch, k - 1) + batch[k].size

overall_total_size == SumSizes(files_to_update, Len(files_to_update))
total_files == Len(files_to_update)

\* The chunks a response stream may deliver next, after `written` bytes.
RECURSIVE ByteSeqs(_)
ByteSeqs(n) ==
    IF n = 0 THEN {<<>>}
    ELSE LET shorter == ByteSeqs(n - 1)
         IN shorter
            \cup {Append(c, b) : c \in {d \in shorter : Len(d) = n - 1},
                                 b \in Bytes}
Chunks(written) == {c \in ByteSeqs(MaxBody - written) : c # <<>>}

\* The Content-Length a response may carry (Missing: none).
ContentLengths == {Missing} \cup 0..MaxBody

\* res.content_length().unwrap_or(file_info.size)
TotalSize(content_length, file_info) ==
    IF IsSome(content_length) THEN content_length ELSE file_info.size

\* How update_file can go up to the creation of the destination file.
RequestOutcomes ==
    {"no_game_path", "mkdir_failed", "client_failed", "send_failed",
     "bad_status", "create_failed", "ok"}
\* The outcomes in which client.get(url).send() was called.
Sent(o) == o \in {"send_failed", "bad_status", "create_failed", "ok"}

\* The condition under which the chunk loop emits download_progress: 100 ms
\* since the last event, or the file's byte count reached its total.
EmitDue(elapsed, downloaded, total) == elapsed \/ downloaded = total

\* overall_downloaded_bytes, without the bytes of the earlier files.
OverallDownloaded_FileOnly(accumulated, downloaded) == downloaded

\* overall_downloaded_bytes
OverallDownloaded(accumulated, downloaded) == accumulated + downloaded

ProgressPayload(file_info, overall, total_bytes, files, file_index) ==
    [file_name |-> file_info.path, downloaded_bytes |-> overall,
     total_bytes |-> total_bytes, total_files |-> files,
     current_file_index |-> file_index]

\* The hash comparison of update_file, accepting whatever was written.
HashMatches_Always(downloaded_hash, expected) == TRUE

\* downloaded_hash == file_info.hash
HashMatches(downloaded_hash, expected) == downloaded_hash = expected

\* A loop that gives up only on an integrity failure and goes on to the next
\* entry after a transport failure.
Aborts_OnlyIntegrity(r) == ~r.ok /\ r.err = "hash_mismatch"

\* The match on update_file's result, going on to the next file after Err.
Aborts_Never(r) == FALSE

\* The match on update_file's result in the loop: Err returns from the call.
Aborts(r) == ~r.ok

\* The error of the loop, without the name of the file.
BatchError_Unnamed(r, file_info) == r

\* format!("Failed to download {}: {}", file_info.path, e)
BatchError(r, file_info) == ErrFile(r.err, file_info.path)

\* PushSize with the byte count put in front of the vector.
PushSize_Front(sizes, n) == <<n>> \o sizes

\* individual_downloaded_sizes.push(size)
PushSize(sizes, n) == Append(sizes, n)

\* The loop of download_all_files after update_file returned r for the file
\* at `index`: Err returns Err naming the file; Ok pushes the byte count and
\* goes to the next file, or emits download_complete and returns after the
\* last (`emitted`: whether that emit succeeds).
AfterFile(r, emitted) ==
    LET file_info == files_to_update[index]
        sizes == IF r.ok THEN PushSize(individual_downloaded_sizes, r.value)
                 ELSE individual_downloaded_sizes
        last == index = total_files
    IN /\ file_ret' = [file_ret EXCEPT ![index] = r]
       /\ individual_downloaded_sizes' = IF Aborts(r) THEN
                                             individual_downloaded_sizes
                                         ELSE sizes
       /\ current_accumulated_bytes' =
              IF r.ok /\ ~Aborts(r) THEN current_accumulated_bytes + r.value
              ELSE current_accumulated_bytes
       /\ IF Aborts(r)
          THEN /\ dl_pc' = "returned"
               /\ dl_ret' = BatchError(r, file_info)
               /\ UNCHANGED <<index, download_complete>>
          ELSE IF last
          THEN /\ dl_pc' = "returned"
               /\ download_complete' =
                      IF emitted THEN download_complete + 1
                      ELSE download_complete
               /\ dl_ret' = IF emitted THEN Ok(sizes) ELSE Err("emit_failed")
               /\ UNCHANGED index
          ELSE /\ dl_pc' = "request"
               /\ index' = index + 1
               /\ UNCHANGED <<download_complete, dl_ret>>

\* download_all_files up to its loop: the totals; an empty batch emits
\* download_complete and returns.
StartDownload(emitted) ==
    /\ dl_pc \in {"idle", "called"}
    /\ IF total_files = 0
       THEN /\ dl_pc' = "returned"
            /\ download_complete' =
                   IF emitted THEN download_complete + 1 ELSE download_complete
            /\ dl_ret' = IF emitted THEN Ok(<<>>) ELSE Err("emit_failed")
            /\ UNCHANGED index
       ELSE /\ dl_pc' = "request"
            /\ index' = 1
            /\ UNCHANGED <<download_complete, dl_ret>>
    /\ UNCHANGED <<launchVars,
                   envVars, genVars, ignVars,
                   fs, cache_file, passVars, files_to_update,
                   current_accumulated_bytes, individual_downloaded_sizes,
                   downloaded_for_current_file, current_file_total_size,
                   requests, file_ret, download_progress, previous_progress>>

\* Truncates with File::create called before the status is looked at.
Truncates_BeforeStatus(o) == o \in {"ok", "bad_status"}

\* The outcomes in which update_file got as far as File::create and the file
\* was created or truncated: the status check comes before it.
Truncates(o) == o = "ok"

\* update_file from its call to the creation of the destination file: the
\* install root, the parent directories, the client, the GET, the status,
\* File::create.
RequestFile(o, content_length, t) ==
    /\ dl_pc = "request"
    /\ o # "ok" => content_length = Missing
    /\ LET file_info == files_to_update[index]
       IN /\ requests' = IF Sent(o) THEN Append(requests, index) ELSE requests
          /\ fs' = IF Truncates(o)
                    THEN [fs EXCEPT
                             ![file_info.path] = LocalFile(<<>>, t, TRUE, TRUE)]
                    ELSE fs
          /\ IF o = "ok"
             THEN /\ current_file_total_size' =
                         TotalSize(content_length, file_info)
                  /\ downloaded_for_current_file' = 0
                  /\ dl_pc' = "stream"
                  /\ UNCHANGED <<index, current_accumulated_bytes,
                                 individual_downloaded_sizes, file_ret,
                                 download_complete, dl_ret>>
             ELSE /\ AfterFile(IF o = "bad_status"
                               THEN ErrFile(o, file_info.path) ELSE Err(o),
                               TRUE)
                  /\ UNCHANGED <<current_file_total_size,
                                 downloaded_for_current_file>>
    /\ UNCHANGED <<launchVars,
                   envVars, genVars, ignVars,
                   cache_file, passVars, files_to_update,
                   download_progress, previous_progress>>

\* One iteration of the chunk loop: the chunk is written to the file, the
\* byte count advanced, the progress event emitted when due.
ReceiveChunk(chunk, written_ok, elapsed) ==
    /\ dl_pc = "stream"
    \* a chunk whose write fails leaves nothing of itself in the model
    /\ ~written_ok => (~elapsed /\ Len(chunk) = 1 /\ chunk[1] = 0)
    /\ LET file_info == files_to_update[index]
           downloaded == downloaded_for_current_file + Len(chunk)
       IN IF written_ok
          THEN /\ fs' = [fs EXCEPT ![file_info.path].content = @ \o chunk]
               /\ downloaded_for_current_file' = downloaded
               /\ download_progress' =
                      IF EmitDue(elapsed, downloaded, current_file_total_size)
                      THEN ProgressPayload(file_info,
                               OverallDownloaded(current_accumulated_bytes,
                                                 downloaded),
                               overall_total_size, total_files, index)
                      ELSE download_progress
               /\ previous_progress' =
                      IF EmitDue(elapsed, downloaded, current_file_total_size)
                      THEN download_progress
                      ELSE previous_progress
               /\ UNCHANGED <<dl_pc, index, current_accumulated_bytes,
                              individual_downloaded_sizes, file_ret,
                              download_complete, dl_ret>>
          ELSE /\ AfterFile(Err("write_failed"), TRUE)
               /\ UNCHANGED <<fs, downloaded_for_current_file,
                              download_progress, previous_progress>>
    /\ UNCHANGED <<launchVars,
                   envVars, genVars, ignVars,
                   cache_file, passVars, files_to_update,
                   current_file_total_size, requests>>

\* The stream yields an error.
StreamError ==
    /\ dl_pc = "stream"
    /\ AfterFile(Err("stream_failed"), TRUE)
    /\ UNCHANGED <<launchVars,
                   envVars, genVars, ignVars,
                   fs, cache_file, passVars, files_to_update,
                   downloaded_for_current_file, current_file_total_size,
                   requests, download_progress, previous_progress>>

\* The stream ends: the file is flushed, hashed again and compared to the
\* expected hash, update_file returns.
FinishOutcomes == {"flush_failed", "hash_failed", "hashed"}
EndOfStream(o, emitted) ==
    /\ dl_pc = "stream"
    /\ LET file_info == files_to_update[index]
           downloaded_hash == Sha256(fs[file_info.path].content)
           r == IF o # "hashed" THEN Err(o)
                ELSE IF ~HashMatches(downloaded_hash, file_info.hash)
                THEN ErrFile("hash_mismatch", file_info.path)
                ELSE Ok(downloaded_for_current_file)
       IN AfterFile(r, emitted)
    /\ UNCHANGED <<launchVars,
                   envVars, genVars, ignVars,
                   fs, cache_file, passVars, files_to_update,
                   downloaded_for_current_file, current_file_total_size,
                   requests, download_progress, previous_progress>>

InitDownload ==
    /\ server_manifest = [i \in 1..NumEntries |-> None]
    /\ fs \in OldRoots
    /\ modified_supported = TRUE
    /\ cache_file = CacheFile("absent", EmptyCache)
    /\ PassIdle
    /\ \E batch \in Batches : DownloadIdle(batch)
    /\ ignored_files = {}
    /\ GenIdle
    /\ IgnoreIdle
    /\ LaunchIdle

NextDownload ==
    \/ \E emitted \in BOOLEAN : StartDownload(emitted)
    \/ \E o \in RequestOutcomes, n \in ContentLengths, t \in NewTimes :
           RequestFile(o, n, t)
    \/ \E chunk \in Chunks(downloaded_for_current_file),
          written_ok, elapsed \in BOOLEAN :
           ReceiveChunk(chunk, written_ok, elapsed)
    \/ StreamError
    \/ \E o \in FinishOutcomes, emitted \in BOOLEAN : EndOfStream(o, emitted)

SpecDownload == InitDownload /\ [][NextDownload]_vars

\* ---------------------------------------------------------- the update flow
\* The list a pass returned is given to download_all_files as its batch.
CallDownload ==
    /\ pc = "returned"
    /\ ret.ok
    /\ dl_pc = "idle"
    /\ dl_pc' = "called"
    /\ files_to_update' = ret.value
    /\ file_ret' = [i \in 1..Len(ret.value) |-> NoRet]
    /\ UNCHANGED <<launchVars,
                   envVars, genVars, ignVars, fs, cache_file, passVars,
                   index, current_accumulated_bytes,
                   individual_downloaded_sizes, downloaded_for_current_file,
                   current_file_total_size, requests, download_progress,
                   previous_progress, download_complete, dl_ret>>

\* A pass, then the download of the list it returned.
NextUpdate ==
    \/ Next
    \/ CallDownload
    \/ dl_pc # "idle" /\ NextDownload

SpecUpdate == Init /\ [][NextUpdate]_vars

\* --------------------------------------------------- generate_hash_file
\* WalkedFiles with the filter keeping every regular file.
WalkedFiles_All(files, ignored) == {p \in Paths : files[p].exists}

\* The regular files the two walks keep: e.file_type().is_file() and
\* !is_ignored(e.path(), game_path, ignored_paths).
WalkedFiles(files, ignored) == {p \in Paths : files[p].exists /\ p \notin ignored}

\* The payload of hash_file_progress.
HashFileProgress(p, current_processed, total, size) ==
    [current_file |-> p, progress |-> Percent(current_processed, total),
     processed_files |-> current_processed, total_files |-> total,
     total_size |-> size]

\* How generate_hash_file can go up to the walks.
GenStartOutcomes == {"no_game_path", "no_url", "ok"}
GenStartError(o) ==
    IF o = "no_game_path" THEN "Config file (tera_config.ini) not found"
    ELSE "FILE_SERVER_URL is not configured."

\* generate_hash_file up to the parallel walk: the install root and the file
\* server's url are read, the files are counted.
StartHashFile(o) ==
    /\ gen_pc = "idle"
    /\ gen_pc' = IF o = "ok" THEN "walk" ELSE "returned"
    /\ gen_ret' = IF o = "ok" THEN NoRet ELSE Err(GenStartError(o))
    /\ hash_total_files' =
           IF o = "ok" THEN Cardinality(WalkedFiles(fs, ignored_files))
           ELSE hash_total_files
    /\ closure' =
           IF o = "ok"
           THEN [p \in Paths |-> IF p \in WalkedFiles(fs, ignored_files)
                                 THEN Waiting ELSE NoClosure]
           ELSE closure
    /\ UNCHANGED <<launchVars,
                   envVars, fs, cache_file, passVars, dlVars, ignVars,
                   ignored_files,
                   processed_files_count, total_size_accumulated, files_data,
                   hash_file_progress, gen_error, hash_file>>

\* The closure on path p up to its fetch_add: the file is hashed, its size
\* read, its FileInfo pushed, the two counters advanced.
HashFile(p) ==
    /\ gen_pc = "walk"
    /\ closure[p] = Waiting
    /\ LET f == fs[p]
           current_processed == processed_files_count + 1
       IN IF ~f.readable
          THEN /\ closure' = [closure EXCEPT ![p] = Failed]
               /\ gen_error' = Append(gen_error, ErrFile("hash_failed", p))
               /\ UNCHANGED <<processed_files_count, total_size_accumulated,
                              files_data>>
          ELSE IF ~f.meta_ok
          THEN /\ closure' = [closure EXCEPT ![p] = Failed]
               /\ gen_error' = Append(gen_error, ErrFile("metadata_failed", p))
               /\ UNCHANGED <<processed_files_count, total_size_accumulated,
                              files_data>>
          ELSE /\ closure' = [closure EXCEPT ![p] = Counted(current_processed)]
               /\ files_data' =
                      Append(files_data,
                             FileInfo(p, Sha256(f.content), Len(f.content),
                                      UrlOf(p)))
               /\ total_size_accumulated' =
                      total_size_accumulated + Len(f.content)
               /\ processed_files_count' = current_processed
               /\ UNCHANGED gen_error
    /\ UNCHANGED <<launchVars,
                   envVars, fs, cache_file, passVars, dlVars, ignVars,
                   ignored_files,
                   gen_pc, hash_total_files, hash_file_progress, hash_file,
                   gen_ret>>

\* The closure on path p after its fetch_add: the event is emitted with the
\* count the fetch_add gave, and the closure returns.
EmitHashFileProgress(p, emitted) ==
    /\ gen_pc = "walk"
    /\ closure[p].at = "counted"
    /\ IF emitted
       THEN /\ hash_file_progress' =
                   Append(hash_file_progress,
                          HashFileProgress(p, closure[p].current_processed,
                                           hash_total_files,
                                           total_size_accumulated))
            /\ closure' =
                   [closure EXCEPT ![p] = Finished(closure[p].current_processed)]
            /\ UNCHANGED gen_error
       ELSE /\ closure' = [closure EXCEPT ![p] = Failed]
            /\ gen_error' = Append(gen_error, ErrFile("emit_failed", p))
            /\ UNCHANGED hash_file_progress
    /\ UNCHANGED <<launchVars,
                   envVars, fs, cache_file, passVars, dlVars, ignVars,
                   ignored_files,
                   gen_pc, hash_total_files, processed_files_count,
                   total_size_accumulated, files_data, hash_file, gen_ret>>

\* How the writing of hash-file.json can go.
GenFinishOutcomes == {"create_failed", "write_failed", "ok"}

\* After try_for_each: it returns once no closure is running, with an error
\* of a closure if there is one (the files not yet started are then left);
\* otherwise the manifest is written and the call returns.
FinishHashFile(o) ==
    /\ gen_pc = "walk"
    /\ \A p \in Paths : closure[p].at # "counted"
    /\ gen_error # <<>> \/ \A p \in Paths : closure[p] # Waiting
    /\ gen_pc' = "returned"
    /\ IF gen_error # <<>>
       THEN /\ o = "ok"
            /\ \E k \in 1..Len(gen_error) : gen_ret' = gen_error[k]
            /\ UNCHANGED hash_file
       ELSE /\ gen_ret' = IF o = "ok" THEN Ok(processed_files_count) ELSE Err(o)
            /\ hash_file' = CASE o = "ok" -> files_data
                              [] o = "create_failed" -> hash_file
                              [] OTHER -> <<>>
    /\ UNCHANGED <<launchVars,
                   envVars, fs, cache_file, passVars, dlVars, ignVars,
                   ignored_files,
                   closure, hash_total_files, processed_files_count,
                   total_size_accumulated, files_data, hash_file_progress,
                   gen_error>>

InitHashFile ==
    /\ server_manifest = [i \in 1..NumEntries |-> None]
    /\ fs \in [Paths -> LocalFiles]
    /\ modified_supported = TRUE
    /\ cache_file = CacheFile("absent", EmptyCache)
    /\ PassIdle
    /\ DownloadIdle(<<>>)
    /\ ignored_files \in SUBSET Paths
    /\ GenIdle
    /\ IgnoreIdle
    /\ LaunchIdle

NextHashFile ==
    \/ \E o \in GenStartOutcomes : StartHashFile(o)
    \/ \E p \in Paths : HashFile(p)
    \/ \E p \in Paths, emitted \in BOOLEAN : EmitHashFileProgress(p, emitted)
    \/ \E o \in GenFinishOutcomes : FinishHashFile(o)

SpecHashFile == InitHashFile /\ [][NextHashFile]_vars

\* ------------------------------------------------------------ is_ignored
\* Longest file or directory name of the paths is_ignored is given.
MaxName == 2

\* The characters of a name: a letter, the backslash, and a unit that is not
\* valid Unicode.  The separator "/" is in no name.
NameChars == {"a", "\\", "?"}
RECURSIVE Names(_)
Names(n) ==
    IF n = 0 THEN {<<>>}
    ELSE LET shorter == Names(n - 1)
         IN shorter
            \cup {Append(c, x) : c \in {d \in shorter : Len(d) = n - 1},
                                 x \in NameChars}
\* The components a path is made of.
Components == {c \in Names(MaxName) : c # <<>>}
\* The install root, a directory beside it, and what lies under a directory:
\* the directory itself, a file in it, a file in a subdirectory of it.
GamePaths == {<< <<"a">> >>}
Besides == {<< <<"a", "a">> >>}
Relatives ==
    {<<>>} \cup {<<c>> : c \in Components}
    \cup {<<c, d>> : c \in Components, d \in Components}
\* The patterns of the ignore set, as strings.
Patterns == {<<"a">>, <<"a", "a">>, <<"a", "/", "a">>}

\* Path::strip_prefix: the components of path after those of base.
StripPrefix(path, base) ==
    IF Len(path) >= Len(base) /\ SubSeq(path, 1, Len(base)) = base
    THEN [ok |-> TRUE, rest |-> SubSeq(path, Len(base) + 1, Len(path))]
    ELSE [ok |-> FALSE, rest |-> <<>>]

\* OsString::into_string: the components joined by the separator, when every
\* unit of them is valid Unicode.
RECURSIVE JoinComponents(_)
JoinComponents(rest) ==
    IF rest = <<>> THEN <<>>
    ELSE IF Len(rest) = 1 THEN rest[1]
    ELSE rest[1] \o <<"/">> \o JoinComponents(Tail(rest))
IntoString(rest) ==
    LET joined == JoinComponents(rest)
    IN [ok |-> \A k \in 1..Len(joined) : joined[k] # "?", string |-> joined]

\* str::replace("\\", "/")
RECURSIVE ReplaceBackslash(_)
ReplaceBackslash(str) ==
    IF str = <<>> THEN <<>>
    ELSE <<IF Head(str) = "\\" THEN "/" ELSE Head(str)>>
         \o ReplaceBackslash(Tail(str))

\* str::contains('/') and str::starts_with(pattern)
ContainsSlash(str) == \E k \in 1..Len(str) : str[k] = "/"
StartsWith(str, pattern) ==
    Len(str) >= Len(pattern) /\ SubSeq(str, 1, Len(pattern)) = pattern

\* Path::parent() == Some(game_path)
ParentIs(path, base) ==
    path # <<>> /\ SubSeq(path, 1, Len(path) - 1) = base

\* is_ignored without its loop over the patterns.
is_ignored_ExactOnly(path, base, ignored) ==
    LET stripped == StripPrefix(path, base)
        converted == IntoString(stripped.rest)
        relative_path == ReplaceBackslash(converted.string)
    IN /\ stripped.ok
       /\ converted.ok
       /\ ~ContainsSlash(relative_path)
       /\ ParentIs(path, base)
       /\ relative_path \in ignored

is_ignored(path, base, ignored) ==
    LET stripped == StripPrefix(path, base)
        converted == IntoString(stripped.rest)
        relative_path == ReplaceBackslash(converted.string)
    IN IF ~stripped.ok THEN FALSE
       ELSE IF ~converted.ok THEN FALSE
       ELSE IF /\ ~ContainsSlash(relative_path)
               /\ ParentIs(path, base)
               /\ relative_path \in ignored
            THEN TRUE
       ELSE \E pattern \in ignored : StartsWith(relative_path, pattern)

\* One call of is_ignored.
CallIsIgnored ==
    /\ ~ig_called
    /\ ig_called' = TRUE
    /\ ig_ret' = is_ignored(ig_path, ig_game_path, ig_ignored_paths)
    /\ UNCHANGED <<launchVars,
                   envVars, fs, cache_file, passVars, dlVars, genVars, ig_path,
                   ig_game_path, ig_ignored_paths>>

InitIsIgnored ==
    /\ server_manifest = [i \in 1..NumEntries |-> None]
    /\ fs = [p \in Paths |-> Absent]
    /\ modified_supported = TRUE
    /\ cache_file = CacheFile("absent", EmptyCache)
    /\ PassIdle
    /\ DownloadIdle(<<>>)
    /\ ignored_files = {}
    /\ GenIdle
    /\ ig_game_path \in GamePaths
    /\ \E dir \in GamePaths \cup Besides, rest \in Relatives :
           ig_path = dir \o rest
    /\ ig_ignored_paths \in SUBSET Patterns
    /\ ig_called = FALSE
    /\ ig_ret = FALSE
    /\ LaunchIdle

NextIsIgnored == CallIsIgnored

SpecIsIgnored == InitIsIgnored /\ [][NextIsIgnored]_vars

\* ------------------------------------------ handle_launch_game and resets
\* Everything the launch commands leave alone.
syncVars == <<envVars, fs, cache_file, passVars, dlVars, genVars, ignVars>>

\* The payloads of the events a game task emits.
GameEvent(name, value) == [name |-> name, value |-> value]
\* emit_all: the event is delivered, or the error is logged and dropped.
Emit(events, emitted, e) == IF emitted THEN Append(events, e) ELSE events

\* AlreadyLaunching with the test of line 39 never true.
AlreadyLaunching_Never(flag) == FALSE

\* Line 39: `if *is_launching_guard`, on the value read under the lock.
AlreadyLaunching(flag) == flag

\* Lines 38-43: under the lock, a call that finds is_launching set returns
\* the error; otherwise it sets it and goes on.
CheckLaunching(c) ==
    /\ launch_pc[c] = "idle"
    /\ IF AlreadyLaunching(is_launching)
       THEN /\ launch_pc' = [launch_pc EXCEPT ![c] = "returned"]
            /\ launch_ret' =
                   [launch_ret EXCEPT ![c] = Err("Game is already launching")]
            /\ UNCHANGED is_launching
       ELSE /\ is_launching' = TRUE
            /\ launch_pc' = [launch_pc EXCEPT ![c] = "status"]
            /\ UNCHANGED launch_ret
    /\ UNCHANGED <<syncVars, game_running, auth_info, task_pc, game_events,
                   reset_seen>>

\* Lines 45-49: the status is read under the receiver's lock.
ReadStatus(c) ==
    /\ launch_pc[c] = "status"
    /\ launch_pc' = [launch_pc EXCEPT
           ![c] = IF game_running THEN "running_reset" ELSE "prepare"]
    /\ UNCHANGED <<syncVars, is_launching, game_running, auth_info, launch_ret,
                   task_pc, game_events, reset_seen>>

\* Lines 50-53: the game is running; is_launching is cleared under the lock
\* and the call returns the error.
ResetRunning(c) ==
    /\ launch_pc[c] = "running_reset"
    /\ is_launching' = FALSE
    /\ launch_pc' = [launch_pc EXCEPT ![c] = "returned"]
    /\ launch_ret' = [launch_ret EXCEPT ![c] = Err("Game is already running")]
    /\ UNCHANGED <<syncVars, game_running, auth_info, task_pc, game_events,
                   reset_seen>>

\* How lines 56-76 can go: the RwLock of the auth info is poisoned, load_config
\* fails, Tera.exe does not exist, its path is not UTF-8, or none of these.
PrepareOutcomes ==
    {"auth_failed", "config_failed", "exe_missing", "non_utf8", "ok"}
PrepareError(o) ==
    CASE o = "auth_failed" -> "Failed to read auth info"
      [] o = "config_failed" -> "Config file (tera_config.ini) not found"
      [] OTHER -> "Invalid path to game executable"

\* Lines 56-129 without the lock of line 67: a `?` returns the error as it
\* is; a missing executable goes to the lock; otherwise the task is spawned
\* and the call returns Ok.
Prepare(c, o) ==
    /\ launch_pc[c] = "prepare"
    /\ launch_pc' = [launch_pc EXCEPT
           ![c] = IF o = "exe_missing" THEN "missing_reset" ELSE "returned"]
    /\ launch_ret' = [launch_ret EXCEPT
           ![c] = CASE o = "exe_missing" -> NoRet
                    [] o = "ok" -> Ok("Game launch initiated")
                    [] OTHER -> Err(PrepareError(o))]
    /\ task_pc' = [task_pc EXCEPT ![c] = IF o = "ok" THEN "spawned" ELSE @]
    /\ UNCHANGED <<syncVars, is_launching, game_running, auth_info,
                   game_events, reset_seen>>

\* Lines 67-70: is_launching is cleared under the lock and the call returns
\* the error.
ResetMissing(c) ==
    /\ launch_pc[c] = "missing_reset"
    /\ is_launching' = FALSE
    /\ launch_pc' = [launch_pc EXCEPT ![c] = "returned"]
    /\ launch_ret' =
           [launch_ret EXCEPT ![c] = Err("Game executable not found")]
    /\ UNCHANGED <<syncVars, game_running, auth_info, task_pc, game_events,
                   reset_seen>>

\* AfterEmit with the error of emit_all returned from the task.
AfterEmit_Propagated(emitted, next) == IF emitted THEN next ELSE "failed"

\* `if let Err(e) = emit_all(..) { error!(..) }`: where the task goes after an
\* emit, delivered or not.
AfterEmit(emitted, next) == next

\* Lines 82-94: the task emits game_status_changed(true) and calls run_game.
TaskStart(c, emitted) ==
    /\ task_pc[c] = "spawned"
    /\ task_pc' = [task_pc EXCEPT ![c] = AfterEmit(emitted, "running")]
    /\ game_events' = [game_events EXCEPT
           ![c] = Emit(@, emitted, GameEvent("game_status_changed", "true"))]
    /\ UNCHANGED <<syncVars, is_launching, game_running, auth_info, launch_pc,
                   launch_ret, reset_seen>>

\* Inside run_game (teralib): the started game is reported on the status
\* channel.
GameStarts(c) ==
    /\ task_pc[c] = "running"
    /\ ~game_running
    /\ game_running' = TRUE
    /\ UNCHANGED <<syncVars, is_launching, auth_info, launch_pc, launch_ret,
                   task_pc, game_events, reset_seen>>

\* Lines 95-115: run_game returns, with the game no longer reported running;
\* the task emits game_status with the result, then game_ended.
RunGameResults == {"exit_status", "error"}
TaskGameExit(c, result, emitted_status, emitted_ended) ==
    /\ task_pc[c] = "running"
    /\ task_pc' = [task_pc EXCEPT
           ![c] = AfterEmit(emitted_status /\ emitted_ended, "ended")]
    /\ game_running' = FALSE
    /\ game_events' = [game_events EXCEPT
           ![c] = Emit(Emit(@, emitted_status,
                            GameEvent("game_status", result)),
                       emitted_ended, GameEvent("game_ended", ""))]
    /\ UNCHANGED <<syncVars, is_launching, auth_info, launch_pc, launch_ret,
                   reset_seen>>

\* Lines 117-119: under the lock the task clears is_launching.
TaskReset(c) ==
    /\ task_pc[c] = "ended"
    /\ task_pc' = [task_pc EXCEPT ![c] = "reset"]
    /\ is_launching' = FALSE
    /\ UNCHANGED <<syncVars, game_running, auth_info, launch_pc, launch_ret,
                   game_events, reset_seen>>

\* Lines 121-126: the task emits game_status_changed(false) and calls
\* reset_global_state.
TaskFinish(c, emitted) ==
    /\ task_pc[c] = "reset"
    /\ task_pc' = [task_pc EXCEPT ![c] = "done"]
    /\ game_events' = [game_events EXCEPT
           ![c] = Emit(@, emitted, GameEvent("game_status_changed", "false"))]
    /\ UNCHANGED <<syncVars, is_launching, game_running, auth_info, launch_pc,
                   launch_ret, reset_seen>>

\* reset_launch_state: is_launching is cleared under the lock.
ResetLaunchState ==
    /\ reset_seen' = TRUE
    /\ is_launching' = FALSE
    /\ UNCHANGED <<syncVars, game_running, auth_info, launch_pc, launch_ret,
                   task_pc, game_events>>

\* handle_logout: is_launching is cleared under the lock, the auth info
\* emptied.
HandleLogout ==
    /\ reset_seen' = TRUE
    /\ is_launching' = FALSE
    /\ auth_info' = "empty"
    /\ UNCHANGED <<syncVars, game_running, launch_pc, launch_ret, task_pc,
                   game_events>>

InitLaunch ==
    /\ server_manifest = [i \in 1..NumEntries |-> None]
    /\ fs = [p \in Paths |-> Absent]
    /\ modified_supported = TRUE
    /\ cache_file = CacheFile("absent", EmptyCache)
    /\ PassIdle
    /\ DownloadIdle(<<>>)
    /\ ignored_files = {}
    /\ GenIdle
    /\ IgnoreIdle
    /\ LaunchIdle

NextLaunch ==
    \/ \E c \in Callers : CheckLaunching(c)
    \/ \E c \in Callers : ReadStatus(c)
    \/ \E c \in Callers : ResetRunning(c)
    \/ \E c \in Callers, o \in PrepareOutcomes : Prepare(c, o)
    \/ \E c \in Callers : ResetMissing(c)
    \/ \E c \in Callers, emitted \in BOOLEAN : TaskStart(c, emitted)
    \/ \E c \in Callers : GameStarts(c)
    \/ \E c \in Callers, result \in RunGameResults,
          emitted_status, emitted_ended \in BOOLEAN :
           TaskGameExit(c, result, emitted_status, emitted_ended)
    \/ \E c \in Callers : TaskReset(c)
    \/ \E c \in Callers, emitted \in BOOLEAN : TaskFinish(c, emitted)
    \/ ResetLaunchState
    \/ HandleLogout

SpecLaunch == InitLaunch /\ [][NextLaunch]_vars

\* Line 117: the task is at `state.is_launching.lock().await`. The tokio
\* runtime polls a spawned task that can run, and the tokio Mutex is never held
\* across an await and serves its waiters in order, so the lock is granted and
\* the store of line 118 is made. (The step always moves task_pc.)
SpecLaunchFair ==
    /\ InitLaunch
    /\ [][NextLaunch]_vars
    /\ \A c \in Callers : WF_task_pc(TaskReset(c))

\* ------------------------------------------------- claims on the diff pass
Returned == pc = "returned" /\ ret.ok
InList(info, list) == \E k \in 1..Len(list) : list[k] = info
Entry(i) == server_manifest[i]
Local(i) == FileAt(fs, Entry(i))
\* The well-formed elements whose local file does not exist.
AbsentEntries ==
    {i \in 1..NumEntries : WellFormed(Entry(i)) /\ ~Local(i).exists}
\* The loaded cache would be trusted for element i.
LoadedTrusts(i) ==
    /\ modified_supported
    /\ CachedAt(cache_loaded, Entry(i)) # NoEntry
    /\ CachedAt(cache_loaded, Entry(i)).last_modified = Local(i).mtime
    /\ CachedAt(cache_loaded, Entry(i)).hash = Entry(i).hash

\* C1: when a pass returns, every well-formed element whose local file does
\* not exist is in the returned list with the server's path, hash, size and
\* url, so the list has at least as many entries as there are such elements.
C1_MissingRequired ==
    Returned =>
        /\ \A i \in AbsentEntries :
               InList(FileInfo(Entry(i).path, Entry(i).hash, Entry(i).size,
                               Entry(i).url), ret.value)
        /\ Len(ret.value) >= Cardinality(AbsentEntries)

C1_Witness ==
    /\ Returned
    /\ Cardinality(AbsentEntries) >= 2
    /\ Len(ret.value) >= 2

\* C2: when a pass returns, every well-formed element whose local file exists
\* with a size other than the declared one is in the returned list and its
\* file was not hashed, whatever the loaded cache holds for its path.
SizeMismatched(i) ==
    /\ WellFormed(Entry(i))
    /\ Local(i).exists
    /\ Local(i).meta_ok
    /\ Len(Local(i).content) # Entry(i).size

C2_SizeShortCircuit ==
    Returned =>
        \A i \in 1..NumEntries :
            SizeMismatched(i) =>
                /\ InList(RequiredInfo(Entry(i)), ret.value)
                /\ Entry(i).path \notin hashed

C2_Witness ==
    /\ Returned
    /\ \E i \in 1..NumEntries : SizeMismatched(i) /\ LoadedTrusts(i)

\* C3 as stated: every well-formed element whose local file exists and whose
\* loaded cache entry has the file's modification time and the server's hash
\* is not hashed and is not in the returned list.
C3_Original ==
    Returned =>
        \A i \in 1..NumEntries :
            (WellFormed(Entry(i)) /\ Local(i).exists /\ LoadedTrusts(i)) =>
                /\ Entry(i).path \notin hashed
                /\ ~InList(RequiredInfo(Entry(i)), ret.value)

\* C3 as amended: every well-formed element whose local file exists with
\* readable metadata and the declared size, and whose loaded cache entry has
\* the file's modification time and the server's hash, is not hashed and is
\* not in the returned list; without the size condition it is still not
\* hashed.
C3_CacheTrust ==
    Returned =>
        \A i \in 1..NumEntries :
            (WellFormed(Entry(i)) /\ Local(i).exists /\ LoadedTrusts(i)) =>
                /\ Entry(i).path \notin hashed
                /\ (Local(i).meta_ok /\ ~SizeMismatched(i)) =>
                       ~InList(RequiredInfo(Entry(i)), ret.value)

C3_Witness ==
    /\ Returned
    /\ \E i \in 1..NumEntries :
           /\ WellFormed(Entry(i)) /\ Local(i).exists /\ LoadedTrusts(i)
           /\ Local(i).meta_ok /\ ~SizeMismatched(i)
           /\ Sha256(Local(i).content) # Entry(i).hash
    /\ hashed # {}

\* The pass that follows a returned pass: the same manifest and install root,
\* the cache reloaded from the cache file.
SecondRun ==
    RunPass(server_manifest, fs, LoadedCache(cache_file), modified_supported,
            NumEntries)

\* C4 as stated: after a pass that saved its cache, a second pass over the
\* same manifest and files with the reloaded cache returns an empty list.
C4_Original ==
    (Returned /\ saved = "saved") => SecondRun.list = <<>>

\* C4 as amended: after a pass that saved its cache, a second pass over the
\* same manifest and files with the reloaded cache returns the same list as
\* the first (empty exactly when the first was), and hashes no file the first
\* pass found equal to the server's.
C4_SecondRunSame ==
    (Returned /\ saved = "saved") =>
        /\ SecondRun.list = ret.value
        /\ \A i \in 1..NumEntries :
               (Entry(i).path \in hashed
                /\ ~InList(RequiredInfo(Entry(i)), ret.value))
                   => Entry(i).path \notin SecondRun.hashed

C4_Witness ==
    /\ Returned
    /\ saved = "saved"
    /\ ret.value # <<>>
    /\ \E i \in 1..NumEntries :
           /\ Entry(i).path \in hashed
           /\ ~InList(RequiredInfo(Entry(i)), ret.value)
    /\ \E i \in 1..NumEntries :
           /\ Entry(i).path \in hashed
           /\ InList(RequiredInfo(Entry(i)), ret.value)

\* The pass started from an empty cache.
EmptyCacheRun ==
    RunPass(server_manifest, fs, EmptyCache, modified_supported, NumEntries)

\* C5: whatever cache a pass loaded, it returns the list that the
\* pass started from an empty cache returns.
C5_CacheIndependence ==
    Returned => ret.value = EmptyCacheRun.list

\* -------------------------------------------- claims on the download batch
BatchIndices == 1..Len(files_to_update)
Requested(i) == \E k \in 1..Len(requests) : requests[k] = i
FileReturned(i) == file_ret[i] # NoRet
\* update_file reached its hash comparison for entry i.
Compared(i) ==
    FileReturned(i) /\ (file_ret[i].ok \/ file_ret[i].err = "hash_mismatch")
OnDisk(i) == fs[files_to_update[i].path]
\* The file of entry i is on disk as a verified download left it.
Verified(i) ==
    /\ file_ret[i].ok
    /\ OnDisk(i).exists
    /\ Sha256(OnDisk(i).content) = files_to_update[i].hash
    /\ Len(OnDisk(i).content) = file_ret[i].value

\* C6: whenever update_file compared the hash of what it wrote for an entry
\* and the content on disk does not hash to the entry's hash, update_file
\* returned the hash-mismatch error, download_all_files has returned an error
\* naming that entry's path, and no later entry was requested.
C6_IntegrityAborts ==
    \A i \in BatchIndices :
        (Compared(i) /\ Sha256(OnDisk(i).content) # files_to_update[i].hash) =>
            /\ file_ret[i] = ErrFile("hash_mismatch", files_to_update[i].path)
            /\ dl_pc = "returned"
            /\ dl_ret = ErrFile("hash_mismatch", files_to_update[i].path)
            /\ \A j \in BatchIndices : j > i => ~Requested(j) /\ ~FileReturned(j)

C6_Witness ==
    /\ dl_pc = "returned"
    /\ dl_ret.err = "hash_mismatch"
    /\ index < Len(files_to_update)
    /\ Len(OnDisk(index).content) = files_to_update[index].size

\* C7: every download_progress event reports at most the sum of the batch's
\* declared sizes as downloaded_bytes, and that sum as total_bytes.
C7_ProgressBounded ==
    download_progress # NoEvent =>
        /\ download_progress.downloaded_bytes <= overall_total_size
        /\ download_progress.total_bytes = overall_total_size

\* C8: of two successive download_progress events of a batch, the later one
\* reports at least the downloaded_bytes of the earlier one, also when the
\* two belong to different files.
C8_ProgressMonotonic ==
    previous_progress # NoEvent =>
        download_progress.downloaded_bytes >= previous_progress.downloaded_bytes

C8_Witness ==
    /\ previous_progress # NoEvent
    /\ previous_progress.current_file_index = 1
    /\ download_progress.current_file_index = 2
    /\ previous_progress.downloaded_bytes >= 2

\* C9: at most one requested entry is without a return of update_file; the
\* entries are requested in list order, each once; and an entry is started
\* only when update_file has returned Ok for every earlier entry, whose
\* verified file is on disk.
C9_Sequential ==
    /\ Cardinality({i \in BatchIndices : Requested(i) /\ ~FileReturned(i)}) <= 1
    /\ \A k \in 1..Len(requests) : requests[k] = k
    /\ \A i \in BatchIndices :
           (Requested(i) \/ FileReturned(i) \/ (dl_pc # "idle" /\ i <= index)) =>
               \A j \in 1..(i - 1) : Verified(j)

C9_Witness ==
    /\ dl_pc = "stream"
    /\ index = 2
    /\ requests = <<1, 2>>
    /\ downloaded_for_current_file > 0

\* C10: when update_file returned an error for entry k, download_all_files
\* has returned an error with that message naming the path of entry k, no
\* later entry was requested or written, and the files of the earlier
\* entries are on disk as their verified downloads left them.
C10_AbortKeepsFiles ==
    \A k \in BatchIndices :
        (FileReturned(k) /\ ~file_ret[k].ok) =>
            /\ dl_pc = "returned"
            /\ ~dl_ret.ok
            /\ dl_ret.err = file_ret[k].err
            /\ dl_ret.file = files_to_update[k].path
            /\ \A j \in BatchIndices :
                   j > k => /\ ~Requested(j)
                            /\ ~FileReturned(j)
                            /\ OnDisk(j) \in OldFiles
            /\ \A j \in 1..(k - 1) : Verified(j)

C10_Witness ==
    /\ dl_pc = "returned"
    /\ Len(files_to_update) = 2
    /\ file_ret[1].ok
    /\ FileReturned(2)
    /\ ~file_ret[2].ok
    /\ OnDisk(2).exists
    /\ OnDisk(2) \notin OldFiles

\* ---------------------------------------------- claims on the progress events
\* C11: in the order they are emitted, the progress events of a pass carry
\* non-decreasing percentages and non-decreasing counts of processed files,
\* both for hash_file_progress and for file_check_progress.
C11_ProgressOrdered ==
    /\ \A k, l \in 1..Len(hash_file_progress) :
           k < l =>
               /\ hash_file_progress[k].progress <= hash_file_progress[l].progress
               /\ hash_file_progress[k].processed_files
                      <= hash_file_progress[l].processed_files
    /\ \A k, l \in 1..Len(file_check_progress) :
           k < l =>
               /\ file_check_progress[k].progress
                      <= file_check_progress[l].progress
               /\ file_check_progress[k].current_count
                      <= file_check_progress[l].current_count

\* -------------------------------------- claims on the errors of a diff pass
\* The local file of element i exists and its metadata cannot be read: the
\* metadata call fails, or the size is read and is the declared one while
\* the modification time is unavailable.
MetadataUnreadable(i) ==
    /\ WellFormed(Entry(i))
    /\ Local(i).exists
    /\ \/ ~Local(i).meta_ok
       \/ /\ ~SizeDiffers(Local(i), Entry(i))
          /\ Modified(Local(i), modified_supported) = NoTime

\* C12: when a pass returns, every well-formed element whose local file
\* exists with unreadable metadata, the unavailable modification time of a
\* file of the declared size included, is in the returned list.
C12_MetadataRequired ==
    Returned =>
        \A i \in 1..NumEntries :
            MetadataUnreadable(i) => InList(RequiredInfo(Entry(i)), ret.value)

\* C13: the list a pass returns is a subsequence of the manifest: its
\* entries are those of manifest elements at strictly increasing positions,
\* and no entry is in it twice, in whatever order the elements were evaluated.
C13_ManifestOrder ==
    Returned =>
        /\ \E pos \in [1..Len(ret.value) -> 1..NumEntries] :
               /\ \A k \in 1..Len(ret.value) :
                      /\ WellFormed(Entry(pos[k]))
                      /\ ret.value[k] = RequiredInfo(Entry(pos[k]))
               /\ \A k, l \in 1..Len(ret.value) : k < l => pos[k] < pos[l]
        /\ \A k, l \in 1..Len(ret.value) : k # l => ret.value[k] # ret.value[l]

\* A pass that returned two entries and evaluated the first element last.
C13_Witness ==
    /\ Returned
    /\ Len(ret.value) >= 2
    /\ \A i \in 1..NumEntries : WellFormed(Entry(i))
    /\ file_check_progress # <<>>
    /\ file_check_progress[Len(file_check_progress)].current_count = NumEntries
    /\ file_check_progress[Len(file_check_progress)].current_file
           = Entry(1).path

\* The element lacks a string path, a string hash or a numeric size.
Malformed(e) == e.path = Missing \/ e.hash = Missing \/ e.size = Missing
HasAllFields(e) == ~Malformed(e)
\* The manifest without its malformed elements.
WithoutMalformed == SelectSeq(server_manifest, HasAllFields)
\* The pass went through its parallel iteration and returned.
Scanned == pc = "returned" /\ saved # "none"

\* C14: a pass over a manifest with malformed elements returns Ok, no entry
\* of its list comes from a malformed element, and the list is the one the
\* pass over the manifest without the malformed elements returns.
C14_MalformedSkipped ==
    Scanned =>
        /\ ret.ok
        /\ \A i \in 1..NumEntries :
               Malformed(Entry(i)) =>
                   /\ ~InList(RequiredInfo(Entry(i)), ret.value)
                   /\ \A k \in 1..Len(ret.value) :
                          ret.value[k].url # Entry(i).url
        /\ ret.value =
               RunPass(WithoutMalformed, fs, cache_loaded, modified_supported,
                       Len(WithoutMalformed)).list

C14_Witness ==
    /\ Scanned
    /\ Malformed(Entry(1))
    /\ IsSome(Entry(1).path)
    /\ ~Malformed(Entry(2))
    /\ ret.value = <<RequiredInfo(Entry(2))>>

\* C15: a cache file that cannot be loaded gives the pass an empty cache and
\* no error; whatever the outcome of the save, a pass that went through its
\* iteration returns Ok with the list of its classification; and the only
\* errors a pass returns are those of its start, none of them from the cache.
C15_CacheBestEffort ==
    /\ (pc = "scan" /\ ~load_cache_from_disk(cache_file).ok) =>
           cache_loaded = EmptyCache /\ ret = NoRet
    /\ Scanned =>
           /\ ret.ok
           /\ ret.value =
                  RunPass(server_manifest, fs, cache_loaded,
                          modified_supported, NumEntries).list
    /\ (pc = "returned" /\ ~ret.ok) =>
           /\ saved = "none"
           /\ ret.err \in {StartError(o) : o \in StartOutcomes \ {"ok"}}

\* A pass that could neither load the cache file nor create it anew, and
\* returned a list after hashing.
C15_Witness ==
    /\ Scanned
    /\ saved = "create_failed"
    /\ cache_file.state = "corrupt"
    /\ cache_loaded = EmptyCache
    /\ hashed # {}
    /\ ret.ok
    /\ ret.value # <<>>

\* ------------------------------------------------- claims on the cache file
\* C16: every step leaves the cache file either as it was or holding the
\* complete mapping that is being saved.
C16_AtomicSave ==
    [][cache_file' = cache_file \/ cache_file' = CacheFile("ok", cache)]_vars

\* ------------------------------------------- claims on the start of a pass
\* The pass returned a configuration error: the manifest url is not set, or
\* the install root cannot be read from the configuration.
ConfigError ==
    /\ pc = "returned"
    /\ ret.err \in {StartError("no_url"), StartError("no_game_path")}

\* C17: a pass that returned a configuration error sent no request, examined
\* no local file and neither read nor wrote the cache file.
C17_ConfigFirst ==
    ConfigError =>
        /\ manifest_requests = 0
        /\ processed_count = 0
        /\ hashed = {}
        /\ cache_loaded = EmptyCache
        /\ saved = "none"

\* --------------------------------------------------- claims on is_ignored
\* What the claim speaks of: the path is under the root, its root-relative
\* string, whether it lies directly in the root, the prefix test.
UnderRoot == StartsWith(ig_path, ig_game_path)
RelativeName == SubSeq(ig_path, Len(ig_game_path) + 1, Len(ig_path))
HasRelativeString ==
    \A k \in 1..Len(RelativeName) :
        \A j \in 1..Len(RelativeName[k]) : RelativeName[k][j] # "?"
RelativeString == ReplaceBackslash(JoinComponents(RelativeName))
DirectlyInRoot == Len(ig_path) = Len(ig_game_path) + 1
PrefixTest ==
    \E pattern \in ig_ignored_paths : StartsWith(RelativeString, pattern)

\* C18: is_ignored returns false for a path not under the root; for a path
\* under the root with a relative string it returns true exactly when the
\* string is a pattern and the path lies directly in the root, or the string
\* starts with a pattern; and that is the result of the prefix test alone.
C18_IsIgnored ==
    ig_called =>
        /\ ~UnderRoot => ~ig_ret
        /\ (UnderRoot /\ HasRelativeString) =>
               /\ ig_ret <=> \/ /\ RelativeString \in ig_ignored_paths
                                /\ DirectlyInRoot
                             \/ PrefixTest
               /\ ig_ret <=> PrefixTest

\* A file in a subdirectory, written with a backslash in one name, ignored
\* by a pattern that is a proper prefix of its relative string.
C18_Witness ==
    /\ ig_called
    /\ ig_ret
    /\ UnderRoot
    /\ Len(RelativeName) = 2
    /\ ContainsSlash(RelativeString)
    /\ \E k \in 1..Len(RelativeName) :
           \E j \in 1..Len(RelativeName[k]) : RelativeName[k][j] = "\\"
    /\ RelativeString \notin ig_ignored_paths

\* --------------------------------------- claims on the events of a transfer
\* C19: once update_file has returned Ok for an entry, and before the next
\* entry is requested, the last download_progress event emitted is one of
\* that entry and reports all the bytes written up to its last byte.
C19_CompletionEvent ==
    \A i \in BatchIndices :
        (file_ret[i].ok /\ \A j \in BatchIndices : j > i => ~Requested(j)) =>
            /\ download_progress.current_file_index = i
            /\ download_progress.downloaded_bytes = current_accumulated_bytes

\* C20: a pass that went through its iteration has emitted a
\* file_check_progress event whose count is the number of elements of the
\* manifest and whose percentage is 100.
C20_FinalProgress ==
    Scanned =>
        \E k \in 1..Len(file_check_progress) :
            /\ file_check_progress[k].current_count = NumEntries
            /\ file_check_progress[k].progress = 100

\* C21: download_all_files never retries.  Each step adds at most one request
\* to the requests made so far, for an entry that was not requested before,
\* and once update_file has returned an error for some entry no request is
\* added at all.
C21_NoRetry ==
    [][/\ \/ requests' = requests
          \/ \E i \in BatchIndices :
                 ~Requested(i) /\ requests' = Append(requests, i)
       /\ (\E k \in BatchIndices : FileReturned(k) /\ ~file_ret[k].ok) =>
              requests' = requests]_vars

C21_Witness ==
    /\ dl_pc = "returned"
    /\ Len(files_to_update) = 2
    /\ file_ret[1] = ErrFile("bad_status", files_to_update[1].path)
    /\ requests = <<1>>
    /\ ~FileReturned(2)

\* The pass called calculate_file_hash for element i and got a hash.
HashComputed(i) ==
    /\ WellFormed(Entry(i))
    /\ Entry(i).path \in hashed
    /\ Local(i).readable

\* C22: for every element whose local file the pass hashed, the cache holds
\* under its path the hash of the file's content with the file's modification
\* time, whether or not that hash is the server's, and a save that succeeded
\* wrote that entry to the cache file.
C22_HashCached ==
    \A i \in 1..NumEntries :
        HashComputed(i) =>
            /\ cache[Entry(i).path] =
                   CachedFileInfo(Sha256(Local(i).content), Local(i).mtime)
            /\ (Scanned /\ saved = "saved") =>
                   /\ cache_file.state = "ok"
                   /\ cache_file.map[Entry(i).path] =
                          CachedFileInfo(Sha256(Local(i).content),
                                         Local(i).mtime)

C22_Witness ==
    /\ Scanned
    /\ saved = "saved"
    /\ \E i, j \in 1..NumEntries :
           /\ HashComputed(i)
           /\ HashComputed(j)
           /\ Sha256(Local(i).content) # Entry(i).hash
           /\ Sha256(Local(j).content) = Entry(j).hash
           /\ cache_loaded[Entry(i).path] # cache[Entry(i).path]

\* The pass called calculate_file_hash for element i and got an error.
HashFailed(i) ==
    /\ WellFormed(Entry(i))
    /\ Entry(i).path \in hashed
    /\ ~Local(i).readable

\* C23: when a pass has returned, it returned Ok; every element whose local
\* file could not be hashed is in the list, the cache holds under its path
\* what the loaded cache held, and the other elements are in the list exactly
\* when their own file requires it.
C23_HashErrorRequired ==
    Scanned =>
        \A i \in 1..NumEntries :
            HashFailed(i) =>
                /\ ret.ok
                /\ InList(RequiredInfo(Entry(i)), ret.value)
                /\ cache[Entry(i).path] = cache_loaded[Entry(i).path]
                /\ saved = "saved" =>
                       cache_file.map[Entry(i).path] =
                           cache_loaded[Entry(i).path]
                /\ \A j \in 1..NumEntries :
                       (j # i /\ WellFormed(Entry(j))) =>
                           (InList(RequiredInfo(Entry(j)), ret.value) <=>
                                \/ ~Local(j).exists
                                \/ ~Local(j).meta_ok
                                \/ Len(Local(j).content) # Entry(j).size
                                \/ /\ Entry(j).path \in hashed
                                   /\ \/ ~Local(j).readable
                                      \/ Sha256(Local(j).content) #
                                             Entry(j).hash)

C23_Witness ==
    /\ Scanned
    /\ \E i, j \in 1..NumEntries :
           /\ HashFailed(i)
           /\ cache_loaded[Entry(i).path] # NoEntry
           /\ HashComputed(j)
           /\ Sha256(Local(j).content) = Entry(j).hash
           /\ Len(ret.value) = 1

\* C24: during and after a pass, every path with an entry in the loaded cache
\* has an entry in the pass's cache, an entry differs from the loaded one only
\* for a path the pass hashed, and a save that succeeded wrote exactly that
\* cache to the cache file.
C24_CacheKept ==
    /\ \A p \in Paths :
           /\ cache_loaded[p] # NoEntry => cache[p] # NoEntry
           /\ cache[p] # cache_loaded[p] => p \in hashed
    /\ (Scanned /\ saved = "saved") =>
           /\ cache_file.state = "ok"
           /\ \A p \in Paths :
                  /\ cache_loaded[p] # NoEntry => cache_file.map[p] # NoEntry
                  /\ cache_file.map[p] # cache_loaded[p] => p \in hashed

C24_Witness ==
    /\ Scanned
    /\ saved = "saved"
    /\ \E p, q \in Paths :
           /\ cache_loaded[p] # NoEntry
           /\ p \notin hashed
           /\ ~fs[p].exists
           /\ cache_file.map[p] = cache_loaded[p]
           /\ q \in hashed
           /\ cache_loaded[q] # NoEntry
           /\ cache_file.map[q] # cache_loaded[q]

\* C25: no step of a diff pass changes a file of the install root or the
\* manifest file generate_hash_file writes there, and the cache file changes
\* only in the step that ends the pass.
C25_RootReadOnly ==
    [][/\ fs' = fs
       /\ hash_file' = hash_file
       /\ cache_file' # cache_file => (pc = "scan" /\ pc' = "returned")]_vars

C25_Witness ==
    /\ Scanned
    /\ saved = "saved"
    /\ cache_file = CacheFile("ok", cache)
    /\ cache # cache_loaded
    /\ AbsentEntries # {}
    /\ \E i \in 1..NumEntries : HashComputed(i)

\* update_file returned for entry i because the status was not a success.
BadStatus(i) == FileReturned(i) /\ file_ret[i].err = "bad_status"

\* C26: when the GET of an entry was answered with a non-success status,
\* update_file returned the error naming the entry's path and the status, and
\* the destination is as it was before the call: absent if it was absent,
\* the old file with its content if there was one.
C26_BadStatusKeepsFile ==
    \A i \in BatchIndices :
        BadStatus(i) =>
            /\ file_ret[i] = ErrFile("bad_status", files_to_update[i].path)
            /\ Requested(i)
            /\ \E root \in OldRoots : OnDisk(i) = root[files_to_update[i].path]

C26_Witness ==
    \E i \in BatchIndices :
        /\ BadStatus(i)
        /\ OnDisk(i).exists
        /\ OnDisk(i).content # <<>>

\* generate_hash_file returned Ok.
Generated == gen_pc = "returned" /\ gen_ret.ok
\* The positions of the written manifest that name path p.
EntriesOf(p) == {k \in 1..Len(hash_file) : hash_file[k].path = p}

Downloaded == dl_pc = "returned" /\ dl_ret.ok

\* C28: download_complete is emitted at most once, and only by a call that
\* returns Ok with every entry of the batch on disk, hash-verified; a call
\* that returned Ok emitted it once and returned the byte counts of the
\* entries in list order; a call in which update_file failed for an entry
\* emitted none; a call with an empty batch made no request.
C28_CompleteOnce ==
    /\ download_complete \in {0, 1}
    /\ download_complete = 1 =>
           /\ Downloaded
           /\ \A i \in BatchIndices : Verified(i)
    /\ Downloaded =>
           /\ download_complete = 1
           /\ Len(dl_ret.value) = Len(files_to_update)
           /\ \A i \in BatchIndices :
                  /\ dl_ret.value[i] = file_ret[i].value
                  /\ dl_ret.value[i] = Len(OnDisk(i).content)
    /\ (\E k \in BatchIndices : FileReturned(k) /\ ~file_ret[k].ok) =>
           download_complete = 0
    /\ files_to_update = <<>> => requests = <<>>

C28_Witness ==
    /\ Downloaded
    /\ download_complete = 1
    /\ Len(files_to_update) = 2
    /\ requests = <<1, 2>>
    /\ dl_ret.value[1] # dl_ret.value[2]

\* C29: when download_all_files has returned Ok for the list a pass returned,
\* the pass that runs next, over the same manifest, the files as the download
\* left them and the cache file as the first pass left it, returns an empty
\* list.
C29_Convergence ==
    (Returned /\ Downloaded /\ files_to_update = ret.value) =>
        SecondRun.list = <<>>

\* ------------------------------------------------ claims on the game launch
\* Call c returns in this step, with an error, after it had set is_launching.
ReturnsErrorAfterSet(c) ==
    /\ launch_pc[c] \in {"running_reset", "prepare", "missing_reset"}
    /\ launch_pc'[c] = "returned"
    /\ ~launch_ret'[c].ok

\* C30: whenever a call of handle_launch_game that had set is_launching
\* returns an error, is_launching is false as it returns.
C30_ErrorResets ==
    [][\A c \in Callers : ReturnsErrorAfterSet(c) => ~is_launching']_vars

\* Call c has passed the is_launching check and has not returned.
PassedCheck(c) ==
    launch_pc[c] \in {"status", "running_reset", "prepare", "missing_reset"}
\* The launches under way: the calls past the check, and the spawned tasks
\* that have not yet cleared is_launching.
Launching ==
    {c \in Callers :
        PassedCheck(c) \/ task_pc[c] \in {"spawned", "running", "ended"}}

\* C31: as long as neither reset_launch_state nor handle_logout was called,
\* at most one launch is under way, and a call that makes its is_launching
\* check while another launch is under way returns "Game is already
\* launching", spawns no task and leaves is_launching as it was, true.
C31_OneLaunch ==
    [][~reset_seen' =>
           /\ Cardinality(Launching') <= 1
           /\ \A c \in Callers :
                  (/\ launch_pc[c] = "idle"
                   /\ launch_pc'[c] # "idle"
                   /\ Launching \ {c} # {}) =>
                      /\ launch_pc'[c] = "returned"
                      /\ launch_ret'[c] = Err("Game is already launching")
                      /\ task_pc' = task_pc
                      /\ is_launching
                      /\ is_launching']_vars

C31_Witness ==
    /\ ~reset_seen
    /\ is_launching
    /\ \E c, d \in Callers :
           /\ launch_ret[c] = Ok("Game launch initiated")
           /\ task_pc[c] = "running"
           /\ launch_ret[d] = Err("Game is already launching")
           /\ task_pc[d] = "none"

\* The tasks that are in their run_game call.
InRunGame == {c \in Callers : task_pc[c] = "running"}

\* C32: at any time at most one spawned task is in its run_game call.
C32_OneGameTask == Cardinality(InRunGame) <= 1

\* The run_game call of the task of call c has returned.
RunGameReturned(c) == task_pc[c] \notin {"none", "spawned", "running"}
\* The task of call c has stored false into is_launching.
TaskHasReset(c) == task_pc[c] \in {"reset", "done"}
\* The place of an event in the order the task emits them.
Rank(e) ==
    CASE e.name = "game_status_changed" /\ e.value = "true" -> 1
      [] e.name = "game_status" -> 2
      [] e.name = "game_ended" -> 3
      [] OTHER -> 4
\* The events of the task of call c, as far as it got: in the order
\* game_status_changed(true), game_status, game_ended,
\* game_status_changed(false), the second and third only once run_game has
\* returned, the last only after the reset.
EventsInOrder(c) ==
    LET ev == game_events[c]
    IN /\ \A j, k \in 1..Len(ev) : j < k => Rank(ev[j]) < Rank(ev[k])
       /\ \A k \in 1..Len(ev) :
              /\ task_pc[c] \notin {"none", "spawned"}
              /\ Rank(ev[k]) \in {2, 3} => RunGameReturned(c)
              /\ Rank(ev[k]) = 4 => task_pc[c] = "done"

\* C33: once the run_game call of a spawned task has returned, the task
\* stores false into is_launching, whichever of its emits failed (a task never
\* goes back from either position, so it is enough that again and again every
\* task whose run_game has returned has made the store); its events
\* come in the order game_status_changed(true), game_status, game_ended,
\* game_status_changed(false); and the step that follows game_ended is the
\* store of false, before game_status_changed(false) is emitted.
C33_TaskResets ==
    /\ [](\A c \in Callers : EventsInOrder(c))
    /\ [][\A c \in Callers :
              (task_pc[c] = "ended" /\ task_pc'[c] # "ended") =>
                  /\ task_pc'[c] = "reset"
                  /\ ~is_launching'
                  /\ game_events'[c] = game_events[c]]_vars
    /\ []<>(\A c \in Callers : RunGameReturned(c) => TaskHasReset(c))

C33_Witness ==
    \E c, d \in Callers :
        /\ launch_ret[c].ok
        /\ task_pc[c] = "done"
        /\ Len(game_events[c]) = 4
        /\ launch_ret[d].ok
        /\ TaskHasReset(d)
        /\ game_events[d] = <<>>
        /\ ~is_launching

====
